---- MODULE Spec2Model ----
(***************************************************************************)
(* Model of minecraft/protocol/writer.go: the Writer that appends the      *)
(* Minecraft wire encoding of values to an underlying byte buffer.         *)
(*                                                                         *)
(* Go's fixed-width integers are modelled as bit vectors: a w-bit value is *)
(* a sequence of w bits, least significant bit first, so that shifts,      *)
(* complements and truncating conversions behave as they do at width w.    *)
(* Bytes in the buffer are the integers 0..255.                            *)
(***************************************************************************)
EXTENDS Integers, Sequences, FiniteSets, TLC

(* ------------------------------ bounds --------------------------------- *)

\* Small signed inputs -MaxSmall..MaxSmall are tried next to the bit patterns.
MaxSmall == 3
\* Number of calls made on one Writer before it is discarded.
MaxCalls == 2
\* The block lists of an item have at most MaxList names.
MaxList == 2
\* The byte ramps of the identifiers have steps 0..MaxStep.
MaxStep == 3

(* ------------------- fixed-width integer arithmetic -------------------- *)

\* Two's complement conversion of a small integer to a w-bit value
\* (uint32(u), int32(len(..)), untyped constants).
Bits(n, w) ==
    [i \in 1..w |-> IF i <= 31 THEN (n \div (2^(i-1))) % 2
                    ELSE IF n < 0 THEN 1 ELSE 0]

\* u < 0 for a signed value: the sign bit.
IsNeg(b) == b[Len(b)] = 1

\* ux << k at the width of ux.
Shl(b, k) == [i \in 1..Len(b) |-> IF i <= k THEN 0 ELSE b[i-k]]

\* ux >> k for an unsigned value.
Shr(b, k) == [i \in 1..Len(b) |-> IF i + k <= Len(b) THEN b[i+k] ELSE 0]

\* x >> k for a signed value (arithmetic shift).
Sar(b, k) == [i \in 1..Len(b) |-> IF i + k <= Len(b) THEN b[i+k] ELSE b[Len(b)]]

\* ^ux
Not(b) == [i \in 1..Len(b) |-> 1 - b[i]]

\* a | b
Or(a, b) == [i \in 1..Len(a) |-> IF a[i] = 1 \/ b[i] = 1 THEN 1 ELSE 0]

\* ux >= 0x80 for an unsigned value.
Ge80(b) == \E i \in 8..Len(b) : b[i] = 1

\* byte(ux): the low eight bits, as a number 0..255.
Byte(b) ==
    b[1] + 2*b[2] + 4*b[3] + 8*b[4] + 16*b[5] + 32*b[6] + 64*b[7] + 128*b[8]

\* byte(ux) | 0x80
ByteOr80(b) ==
    b[1] + 2*b[2] + 4*b[3] + 8*b[4] + 16*b[5] + 32*b[6] + 64*b[7] + 128

\* int32(v) of a narrower signed value v: sign extension to w bits.
SignExtend(b, w) == [i \in 1..w |-> IF i <= Len(b) THEN b[i] ELSE b[Len(b)]]

(* ------------------------------ varints -------------------------------- *)

\* The loop of Varuint32: for u >= 0x80 { WriteByte(byte(u)|0x80); u >>= 7 };
\* WriteByte(byte(u)).
RECURSIVE Varuint32(_, _)
Varuint32(w, u) ==
    IF Ge80(u) THEN Varuint32(Append(w, ByteOr80(u)), Shr(u, 7))
    ELSE Append(w, Byte(u))

\* ux > 0x80 for an unsigned value.
Gt80(b) == (\E i \in 9..Len(b) : b[i] = 1) \/ (b[8] = 1 /\ \E i \in 1..7 : b[i] = 1)

\* Varuint64 with the loop condition u > 0x80.
RECURSIVE Varuint64OffByOne(_, _)
Varuint64OffByOne(w, u) ==
    IF Gt80(u) THEN Varuint64OffByOne(Append(w, ByteOr80(u)), Shr(u, 7))
    ELSE Append(w, Byte(u))

\* The loop of Varuint64.
RECURSIVE Varuint64(_, _)
Varuint64(w, u) ==
    IF Ge80(u) THEN Varuint64(Append(w, ByteOr80(u)), Shr(u, 7))
    ELSE Append(w, Byte(u))

\* The write loop of Varint32, on the zig-zag value ux.
RECURSIVE Varint32Loop(_, _)
Varint32Loop(w, ux) ==
    IF Ge80(ux) THEN Varint32Loop(Append(w, ByteOr80(ux)), Shr(ux, 7))
    ELSE Append(w, Byte(ux))

\* Varint32 without the complement of negative values.
Varint32NoComplement(w, x) == Varint32Loop(w, Shl(x, 1))

\* Varint32: ux := uint32(u) << 1; if u < 0 { ux = ^ux }; then the loop.
Varint32(w, x) ==
    LET ux == IF IsNeg(x) THEN Not(Shl(x, 1)) ELSE Shl(x, 1)
    IN  Varint32Loop(w, ux)

\* The write loop of Varint64, on the zig-zag value ux.
RECURSIVE Varint64Loop(_, _)
Varint64Loop(w, ux) ==
    IF Ge80(ux) THEN Varint64Loop(Append(w, ByteOr80(ux)), Shr(ux, 7))
    ELSE Append(w, Byte(ux))

\* Varint64 complementing before the shift instead of after it.
Varint64ComplementFirst(w, x) ==
    LET ux == IF IsNeg(x) THEN Shl(Not(x), 1) ELSE Shl(x, 1)
    IN  Varint64Loop(w, ux)

\* Varint64: ux := uint64(u) << 1; if u < 0 { ux = ^ux }; then the loop.
Varint64(w, x) ==
    LET ux == IF IsNeg(x) THEN Not(Shl(x, 1)) ELSE Shl(x, 1)
    IN  Varint64Loop(w, ux)

(* ----------------------- fixed-width primitives ------------------------- *)

\* Uint8: WriteByte(*x).
Uint8(w, b) == Append(w, b)

\* Int16: the two bytes of the value, low byte first.
Int16(w, v) == w \o <<Byte(v), Byte(Shr(v, 8))>>

\* Float32: the four bytes of the IEEE-754 bits of the value, low byte first.
Float32(w, f) ==
    w \o <<Byte(f), Byte(Shr(f, 8)), Byte(Shr(f, 16)), Byte(Shr(f, 24))>>

\* String: l := uint32(len(*x)); Varuint32(&l); Write([]byte(*x)).
String(w, str) == Varuint32(w, Bits(Len(str), 32)) \o str

\* Vec3: three Float32.
Vec3(w, v) == Float32(Float32(Float32(w, v[1]), v[2]), v[3])

\* BlockPos: three Varint32.
BlockPos(w, p) == Varint32(Varint32(Varint32(w, p[1]), p[2]), p[3])

\* The concatenation of a sequence of byte sequences.
RECURSIVE Concat(_)
Concat(ss) == IF ss = <<>> THEN <<>> ELSE Head(ss) \o Concat(Tail(ss))

\* NBT: the tree encoder writes the compound x in the network little endian
\* format: the compound tag with an empty name, the entries, the end tag.
\* A compound is modelled as the sequence of its encoded entries.
NBT(w, nbtData) == w \o <<10, 0>> \o Concat(nbtData) \o <<0>>

(* -------------------------------- UUID ---------------------------------- *)

\* UUID with the reversal but without the swap of the halves.
UUIDNoSwap(w, u) == w \o [i \in 1..16 |-> u[17 - i]]

\* UUID: b := append((*x)[8:], (*x)[:8]...); b is reversed in place; Write(b).
UUID(w, u) ==
    LET b == SubSeq(u, 9, 16) \o SubSeq(u, 1, 8)
    IN  w \o [i \in 1..16 |-> b[17 - i]]

(* -------------------------------- Item ---------------------------------- *)

shieldID == 513

\* for _, block := range list { w.String(&block) }
RECURSIVE Strings(_, _)
Strings(w, list) ==
    IF list = <<>> THEN w ELSE Strings(String(w, Head(list)), Tail(list))

\* aux := int32(x.MetadataValue<<8) | int32(x.Count): the shift is done at the
\* width of MetadataValue, before the conversion to int32.
Aux(item) ==
    Or(SignExtend(Shl(item.MetadataValue, 8), 32), SignExtend(item.Count, 32))

\* The user data of Item: marker -1, version 1 and the NBT, or marker 0.
UserData(w, item) ==
    IF Len(item.NBTData) # 0
    THEN NBT(Uint8(Int16(w, Bits(-1, 16)), 1), item.NBTData)
    ELSE Int16(w, Bits(0, 16))

\* BlockLists writing the can-break list before the can-be-placed-on list.
BlockListsSwapped(w, item) ==
    LET w1 == Varint32(w, Bits(Len(item.CanBreak), 32))
        w2 == Strings(w1, item.CanBreak)
        w3 == Varint32(w2, Bits(Len(item.CanBePlacedOn), 32))
    IN  Strings(w3, item.CanBePlacedOn)

\* The two block lists of Item, each after its length written by Varint32.
BlockLists(w, item) ==
    LET w1 == Varint32(w, Bits(Len(item.CanBePlacedOn), 32))
        w2 == Strings(w1, item.CanBePlacedOn)
        w3 == Varint32(w2, Bits(Len(item.CanBreak), 32))
    IN  Strings(w3, item.CanBreak)

\* BlockingTick writing the tick for every item.
BlockingTickAlways(w, item) == Varint64(w, Bits(0, 64))

\* The end of Item: the blocking tick 0 of a shield.
BlockingTick(w, item) ==
    IF item.NetworkID = Bits(shieldID, 32) THEN Varint64(w, Bits(0, 64)) ELSE w

\* Item without the early return for NetworkID 0.
ItemNoReturn(w, item) ==
    BlockingTick(
        BlockLists(
            UserData(Varint32(Varint32(w, item.NetworkID), Aux(item)), item),
            item),
        item)

\* Item: Varint32(&x.NetworkID), the return for the empty item, then aux,
\* the user data, the block lists and the blocking tick.
Item(w, item) ==
    LET w1 == Varint32(w, item.NetworkID)
    IN  IF item.NetworkID = Bits(0, 32) THEN w1
        ELSE BlockingTick(
                 BlockLists(UserData(Varint32(w1, Aux(item)), item), item),
                 item)

(* --------------------------- EntityMetadata ----------------------------- *)

entityDataByte == 0
entityDataInt16 == 1
entityDataInt32 == 2
entityDataFloat32 == 3
entityDataString == 4
entityDataCompoundTag == 5
entityDataBlockPos == 6
entityDataInt64 == 7
entityDataVec3 == 8

\* The dynamic types the switch of EntityMetadata has a case for.
KnownTypes ==
    {"byte", "int16", "int32", "float32", "string", "compound", "BlockPos",
     "int64", "Vec3"}

\* One case of the type switch: the type written by Varuint32, then the value.
WriteValue(w, value) ==
    LET v == value.v
        Tag(t) == Varuint32(w, Bits(t, 32))
    IN  CASE value.t = "byte"     -> Uint8(Tag(entityDataByte), v)
          [] value.t = "int16"    -> Int16(Tag(entityDataInt16), v)
          [] value.t = "int32"    -> Varint32(Tag(entityDataInt32), v)
          [] value.t = "float32"  -> Float32(Tag(entityDataFloat32), v)
          [] value.t = "string"   -> String(Tag(entityDataString), v)
          [] value.t = "compound" -> NBT(Tag(entityDataCompoundTag), v)
          [] value.t = "BlockPos" -> BlockPos(Tag(entityDataBlockPos), v)
          [] value.t = "int64"    -> Varint64(Tag(entityDataInt64), v)
          [] value.t = "Vec3"     -> Vec3(Tag(entityDataVec3), v)

\* RangeLoop with a default case that skips the entry.
RECURSIVE RangeLoopSkip(_, _, _)
RangeLoopSkip(w, m, order) ==
    IF order = <<>> THEN [buf |-> w, status |-> "ok"]
    ELSE LET key == Head(order)
             w1 == Varuint32(w, Bits(key, 32))
         IN  IF m[key].t \in KnownTypes
             THEN RangeLoopSkip(WriteValue(w1, m[key]), m, Tail(order))
             ELSE RangeLoopSkip(w1, m, Tail(order))

\* for key, value := range *x: the keys are visited in the order the range
\* yields them; the default case panics (UnknownEnumOption) after the key
\* has been written. The result is the buffer and how the loop ended.
RECURSIVE RangeLoop(_, _, _)
RangeLoop(w, m, order) ==
    IF order = <<>> THEN [buf |-> w, status |-> "ok"]
    ELSE LET key == Head(order)
             w1 == Varuint32(w, Bits(key, 32))
         IN  IF m[key].t \in KnownTypes
             THEN RangeLoop(WriteValue(w1, m[key]), m, Tail(order))
             ELSE [buf |-> w1, status |-> "panic"]

\* EntityMetadata: l := uint32(len(*x)); Varuint32(&l); then the range loop.
EntityMetadata(w, m, order) ==
    RangeLoop(Varuint32(w, Bits(Cardinality(DOMAIN m), 32)), m, order)

\* The orders in which a range over the map m can yield its keys: Go leaves
\* the iteration order of a map unspecified, and it differs between ranges.
RangeOrders(m) ==
    {o \in [1..Cardinality(DOMAIN m) -> DOMAIN m] :
        \A i, j \in DOMAIN o : i # j => o[i] # o[j]}

(* ------------------------- the inverse transforms ----------------------- *)

\* b&0x7f of a byte, as a w-bit value.
Low7(b, w) == Bits(b % 128, w)

\* LEB128 reassembly of Reader.Varuint32 / Reader.Varuint64: at most n bytes
\* are read from position pos; ux |= (b&0x7f) << i for i = 0, 7, 14, ...;
\* the byte without the continuation bit ends the value. The result is
\* [ok, val, pos]: whether a value was read, the value, the position after it.
RECURSIVE ReadLoop(_, _, _, _, _)
ReadLoop(bytes, pos, ux, i, n) ==
    IF n = 0 \/ pos > Len(bytes) THEN [ok |-> FALSE, val |-> ux, pos |-> pos]
    ELSE LET b == bytes[pos]
             ux2 == Or(ux, Shl(Low7(b, Len(ux)), i))
         IN  IF b < 128 THEN [ok |-> TRUE, val |-> ux2, pos |-> pos + 1]
             ELSE ReadLoop(bytes, pos + 1, ux2, i + 7, n - 1)

ReadVaruint32(bytes, pos) == ReadLoop(bytes, pos, Bits(0, 32), 0, 5)

ReadVaruint64(bytes, pos) == ReadLoop(bytes, pos, Bits(0, 64), 0, 10)

\* Zig-zag inversion: x = ux >> 1; if ux&1 != 0 { x = ^x }.
UnZigZag(ux) == IF ux[1] = 1 THEN Not(Shr(ux, 1)) ELSE Shr(ux, 1)

ReadVarint32(bytes, pos) ==
    LET r == ReadVaruint32(bytes, pos)
    IN  [ok |-> r.ok, val |-> UnZigZag(r.val), pos |-> r.pos]

ReadVarint64(bytes, pos) ==
    LET r == ReadVaruint64(bytes, pos)
    IN  [ok |-> r.ok, val |-> UnZigZag(r.val), pos |-> r.pos]

\* a & b
And(a, b) == [i \in 1..Len(a) |-> IF a[i] = 1 /\ b[i] = 1 THEN 1 ELSE 0]

\* The number a length below 2^16 stands for, and -1 for any other value
\* (a length no buffer tried here can hold).
RECURSIVE NatOf(_)
NatOf(b) == IF b = <<>> THEN 0 ELSE Head(b) + 2 * NatOf(Tail(b))

LenOf(b) ==
    IF \E i \in 17..Len(b) : b[i] = 1 THEN -1 ELSE NatOf(SubSeq(b, 1, 16))

\* Reader.UUID: the sixteen bytes are reversed and their halves swapped.
ReadUUID(bytes) ==
    LET b == [i \in 1..16 |-> bytes[17 - i]]
    IN  SubSeq(b, 9, 16) \o SubSeq(b, 1, 8)

\* Reader.String: a Varuint32 length and that many bytes.
ReadString(bytes, pos) ==
    LET r == ReadVaruint32(bytes, pos)
        n == LenOf(r.val)
    IN  IF r.ok /\ n >= 0 /\ r.pos + n - 1 <= Len(bytes)
        THEN [ok |-> TRUE, val |-> SubSeq(bytes, r.pos, r.pos + n - 1),
              pos |-> r.pos + n]
        ELSE [ok |-> FALSE, val |-> <<>>, pos |-> pos]

\* n strings read one after the other.
RECURSIVE ReadStrings(_, _, _)
ReadStrings(bytes, pos, n) ==
    IF n = 0 THEN [ok |-> TRUE, val |-> <<>>, pos |-> pos]
    ELSE LET r == ReadString(bytes, pos)
             rest == ReadStrings(bytes, r.pos, n - 1)
         IN  IF r.ok /\ rest.ok
             THEN [ok |-> TRUE, val |-> <<r.val>> \o rest.val, pos |-> rest.pos]
             ELSE [ok |-> FALSE, val |-> <<>>, pos |-> pos]

\* A block list whose element count is a signed varint (signed = TRUE) or
\* an unsigned varint (signed = FALSE), followed by that many strings.
ReadBlockList(bytes, pos, signed) ==
    LET r == IF signed THEN ReadVarint32(bytes, pos)
             ELSE ReadVaruint32(bytes, pos)
        n == LenOf(r.val)
    IN  IF r.ok /\ n >= 0 THEN ReadStrings(bytes, r.pos, n)
        ELSE [ok |-> FALSE, val |-> <<>>, pos |-> pos]

\* The entries of an NBT compound up to its end tag; every entry tried here
\* is a byte tag: the tag 1, the name and one byte.
RECURSIVE ReadNBTEntries(_, _)
ReadNBTEntries(bytes, pos) ==
    IF pos > Len(bytes) THEN [ok |-> FALSE, pos |-> pos]
    ELSE IF bytes[pos] = 0 THEN [ok |-> TRUE, pos |-> pos + 1]
    ELSE LET name == ReadString(bytes, pos + 1)
         IN  IF bytes[pos] = 1 /\ name.ok
             THEN ReadNBTEntries(bytes, name.pos + 1)
             ELSE [ok |-> FALSE, pos |-> pos]

\* The user data of an item: the Int16 marker, and for the marker -1 the
\* version byte and the NBT compound.
ReadUserData(bytes, pos) ==
    IF pos + 1 > Len(bytes) THEN [ok |-> FALSE, nbt |-> FALSE, pos |-> pos]
    ELSE IF bytes[pos] = 0 /\ bytes[pos + 1] = 0
         THEN [ok |-> TRUE, nbt |-> FALSE, pos |-> pos + 2]
    ELSE IF bytes[pos] = 255 /\ bytes[pos + 1] = 255 /\ pos + 4 <= Len(bytes)
            /\ bytes[pos + 2] = 1 /\ bytes[pos + 3] = 10 /\ bytes[pos + 4] = 0
         THEN LET r == ReadNBTEntries(bytes, pos + 5)
              IN  [ok |-> r.ok, nbt |-> TRUE, pos |-> r.pos]
    ELSE [ok |-> FALSE, nbt |-> FALSE, pos |-> pos]

\* The fields of a non-empty item up to the end of the can-break list:
\* NetworkID, aux, the user data and the two block lists.
ReadItemFields(bytes, signed) ==
    LET id == ReadVarint32(bytes, 1)
        aux == ReadVarint32(bytes, id.pos)
        ud == ReadUserData(bytes, aux.pos)
        place == ReadBlockList(bytes, ud.pos, signed)
        break == ReadBlockList(bytes, place.pos, signed)
    IN  [ok |-> id.ok /\ aux.ok /\ ud.ok /\ place.ok /\ break.ok,
         NetworkID |-> id.val, aux |-> aux.val, nbt |-> ud.nbt,
         CanBePlacedOn |-> place.val, CanBreak |-> break.val,
         listsAt |-> ud.pos, pos |-> break.pos]

(* ------------------------------- inputs -------------------------------- *)

\* 2^k - 1 at width w: the k low bits set.
LowOnes(k, w) == [i \in 1..w |-> IF i <= k THEN 1 ELSE 0]

\* 2^k at width w.
OneHot(k, w) == [i \in 1..w |-> IF i = k + 1 THEN 1 ELSE 0]

\* Values of a w-bit integer type that are tried: the small integers, and
\* for every bit position k the values 2^k - 1, 2^k and their complements
\* (which include the minimum and maximum of the signed and unsigned type).
IntInputs(w) ==
    {Bits(n, w) : n \in -MaxSmall..MaxSmall}
        \cup {LowOnes(k, w) : k \in 0..w}
        \cup {Not(LowOnes(k, w)) : k \in 0..w}
        \cup {OneHot(k, w) : k \in 0..(w-1)}
        \cup {Not(OneHot(k, w)) : k \in 0..(w-1)}

\* 16-byte identifiers that are tried: ramps of bytes, and a single 0xff at
\* every position.
UUIDInputs ==
    {[i \in 1..16 |-> (b + (i - 1) * st) % 256] :
        b \in {0, 100, 250}, st \in 0..MaxStep}
        \cup {[i \in 1..16 |-> IF i = k THEN 255 ELSE 0] : k \in 1..16}

\* Block names: "a" and "bc".
Names == {<<97>>, <<98, 99>>}

\* The block lists that are tried: every list of at most MaxList names.
Lists == UNION {[1..n -> Names] : n \in 0..MaxList}

\* The NBT data that is tried: the empty compound, and a compound with the
\* single entry "a": byte 5.
NBTInputs == {<<>>, << <<1, 1, 97, 5>> >>}

\* The item stacks that are tried. MetadataValue and Count are 16-bit signed.
ItemInputs ==
    [NetworkID : {Bits(n, 32) : n \in {0, -1, 513, 514}},
     MetadataValue : {Bits(n, 16) : n \in {1, 128, 256, -1}},
     Count : {Bits(n, 16) : n \in {0, 64, 255, 256}},
     NBTData : NBTInputs,
     CanBePlacedOn : Lists,
     CanBreak : Lists]

\* The entity metadata maps that are tried; the values of the last three
\* have dynamic types (bool, uint16) the type switch has no case for.
MetadataInputs ==
    << <<>>,
       (0 :> [t |-> "byte", v |-> 5]),
       (0 :> [t |-> "byte", v |-> 200]
          @@ 1 :> [t |-> "int16", v |-> Bits(-2, 16)]
          @@ 2 :> [t |-> "int32", v |-> Bits(-1, 32)]),
       (3 :> [t |-> "float32", v |-> Bits(1065353216, 32)]
          @@ 4 :> [t |-> "string", v |-> <<98, 99>>]
          @@ 5 :> [t |-> "compound", v |-> << <<1, 1, 97, 5>> >>]),
       (6 :> [t |-> "BlockPos", v |-> <<Bits(1, 32), Bits(-64, 32), Bits(300, 32)>>]
          @@ 7 :> [t |-> "int64", v |-> OneHot(63, 64)]
          @@ 130 :> [t |-> "Vec3", v |-> <<Bits(1065353216, 32), Bits(1073741824, 32), Bits(1077936128, 32)>>]),
       (1 :> [t |-> "byte", v |-> 1] @@ 2 :> [t |-> "byte", v |-> 1]),
       (1 :> [t |-> "bool", v |-> 1]),
       (1 :> [t |-> "byte", v |-> 7] @@ 2 :> [t |-> "bool", v |-> 0]),
       (1 :> [t |-> "uint16", v |-> Bits(9, 16)]
          @@ 2 :> [t |-> "string", v |-> <<97>>]
          @@ 3 :> [t |-> "bool", v |-> 1]) >>

(* ------------------------------- state --------------------------------- *)

VARIABLES
    buf,     \* Writer.w: the bytes written to the underlying buffer
    x,       \* the value the caller holds and passes by pointer: [type, val]
    marks,   \* Len(buf) at the start of each call made on this Writer
    status,  \* "ok", or "panic" once a call has panicked
    order    \* the order in which the last range over a map yielded its keys

vars == <<buf, x, marks, status, order>>

\* NewWriter(w): a Writer over an empty buffer, and a value to write.
Init ==
    /\ buf = <<>>
    /\ marks = <<>>
    /\ status = "ok"
    /\ order = <<>>
    /\ \/ \E v \in UUIDInputs : x = [type |-> "UUID", val |-> v]
       \/ \E v \in ItemInputs : x = [type |-> "ItemStack", val |-> v]
       \/ \E i \in DOMAIN MetadataInputs :
              x = [type |-> "map", val |-> MetadataInputs[i]]
       \/ \E v \in IntInputs(32) : x = [type |-> "int32", val |-> v]
       \/ \E v \in IntInputs(32) : x = [type |-> "uint32", val |-> v]
       \/ \E v \in IntInputs(64) : x = [type |-> "int64", val |-> v]
       \/ \E v \in IntInputs(64) : x = [type |-> "uint64", val |-> v]

\* A call can be made: no earlier call panicked, and the caller has calls left.
CanCall == status = "ok" /\ Len(marks) < MaxCalls

WriteVarint32 ==
    /\ CanCall /\ x.type = "int32"
    /\ buf' = Varint32(buf, x.val)
    /\ marks' = Append(marks, Len(buf))
    /\ UNCHANGED <<x, status, order>>

WriteVaruint32 ==
    /\ CanCall /\ x.type = "uint32"
    /\ buf' = Varuint32(buf, x.val)
    /\ marks' = Append(marks, Len(buf))
    /\ UNCHANGED <<x, status, order>>

WriteVarint64 ==
    /\ CanCall /\ x.type = "int64"
    /\ buf' = Varint64(buf, x.val)
    /\ marks' = Append(marks, Len(buf))
    /\ UNCHANGED <<x, status, order>>

WriteVaruint64 ==
    /\ CanCall /\ x.type = "uint64"
    /\ buf' = Varuint64(buf, x.val)
    /\ marks' = Append(marks, Len(buf))
    /\ UNCHANGED <<x, status, order>>

WriteUUID ==
    /\ CanCall /\ x.type = "UUID"
    /\ buf' = UUID(buf, x.val)
    /\ marks' = Append(marks, Len(buf))
    /\ UNCHANGED <<x, status, order>>

WriteItem ==
    /\ CanCall /\ x.type = "ItemStack"
    /\ buf' = Item(buf, x.val)
    /\ marks' = Append(marks, Len(buf))
    /\ UNCHANGED <<x, status, order>>

WriteEntityMetadata ==
    /\ CanCall /\ x.type = "map"
    /\ \E o \in RangeOrders(x.val) :
           LET r == EntityMetadata(buf, x.val, o)
           IN  /\ buf' = r.buf
               /\ status' = r.status
               /\ order' = o
    /\ marks' = Append(marks, Len(buf))
    /\ UNCHANGED x

Next ==
    \/ WriteUUID
    \/ WriteItem
    \/ WriteEntityMetadata
    \/ WriteVarint32
    \/ WriteVaruint32
    \/ WriteVarint64
    \/ WriteVaruint64

Spec == Init /\ [][Next]_vars

\* The bytes appended by the k-th call on this Writer.
Out(k) ==
    SubSeq(buf, marks[k] + 1, IF k < Len(marks) THEN marks[k+1] ELSE Len(buf))

TypeOK ==
    /\ \A i \in 1..Len(buf) : buf[i] \in 0..255
    /\ status \in {"ok", "panic"}
    /\ Len(marks) <= MaxCalls

(* ------------------------------ properties ----------------------------- *)

Calls == 1..Len(marks)

\* The value of the k-th call's output read back by the reader of x's type.
ReadBack(k) ==
    CASE x.type = "int32"  -> ReadVarint32(Out(k), 1)
      [] x.type = "uint32" -> ReadVaruint32(Out(k), 1)
      [] x.type = "int64"  -> ReadVarint64(Out(k), 1)
      [] x.type = "uint64" -> ReadVaruint64(Out(k), 1)

IsVarintType == x.type \in {"int32", "uint32", "int64", "uint64"}

\* C1: the bytes written by Varint32, Varint64, Varuint32 and Varuint64 for x
\* decode back to exactly x (LEB128 reassembly, and zig-zag inversion for the
\* signed writers), and the decoder consumes exactly the bytes written.
C1_VarintRoundTrip ==
    IsVarintType =>
        \A k \in Calls :
            /\ ReadBack(k).ok
            /\ ReadBack(k).val = x.val
            /\ ReadBack(k).pos = Len(Out(k)) + 1

\* The minimum int64 has been written (ten bytes).
C1_Witness ==
    /\ x.type = "int64" /\ x.val = OneHot(63, 64)
    /\ Len(marks) >= 1 /\ Len(Out(1)) = 10

\* C2: the signed varint -1 is written as the single byte 0x01 and the
\* signed varint 0 as the single byte 0x00, by Varint32 and by Varint64.
C2_MinusOneAndZero ==
    \A k \in Calls :
        /\ (x.type = "int32" /\ x.val = Bits(-1, 32)) => Out(k) = <<1>>
        /\ (x.type = "int64" /\ x.val = Bits(-1, 64)) => Out(k) = <<1>>
        /\ (x.type = "int32" /\ x.val = Bits(0, 32)) => Out(k) = <<0>>
        /\ (x.type = "int64" /\ x.val = Bits(0, 64)) => Out(k) = <<0>>

\* -1 has been written twice with Varint64: the buffer holds 0x01 0x01.
C2_Witness ==
    /\ x.type = "int64" /\ x.val = Bits(-1, 64)
    /\ Len(marks) = 2 /\ buf = <<1, 1>>

\* C10: every varint written is well-formed: every byte but the last has its
\* high bit set, the last has it clear, and 1..5 bytes are written by the
\* 32-bit writers, 1..10 by the 64-bit writers.
C10_VarintWellFormed ==
    IsVarintType =>
        \A k \in Calls :
            LET o == Out(k)
                max == IF x.type \in {"int32", "uint32"} THEN 5 ELSE 10
            IN  /\ Len(o) >= 1 /\ Len(o) <= max
                /\ \A i \in 1..(Len(o) - 1) : o[i] >= 128
                /\ o[Len(o)] < 128

\* The maximum uint64 has been written: nine bytes 0xff and the byte 0x01.
C10_Witness ==
    /\ x.type = "uint64" /\ x.val = LowOnes(64, 64)
    /\ Len(marks) >= 1
    /\ Out(1) = <<255, 255, 255, 255, 255, 255, 255, 255, 255, 1>>

IsItem == x.type = "ItemStack"

IsEmptyItem == IsItem /\ x.val.NetworkID = Bits(0, 32)

IsShield == IsItem /\ x.val.NetworkID = Bits(shieldID, 32)

\* C3: Item on an ItemStack whose NetworkID is 0 appends the single byte
\* 0x00 and nothing else, whatever the other fields hold.
C3_EmptyItem ==
    IsEmptyItem => \A k \in Calls : Out(k) = <<0>>

\* An empty item with metadata, count, NBT data and block lists was written.
C3_Witness ==
    /\ IsEmptyItem /\ Len(marks) >= 1 /\ Out(1) = <<0>>
    /\ x.val.MetadataValue = Bits(1, 16) /\ x.val.Count = Bits(64, 16)
    /\ Len(x.val.NBTData) = 1
    /\ Len(x.val.CanBePlacedOn) = 2 /\ Len(x.val.CanBreak) = 1

\* C4: after the can-break list of a non-empty item, Item writes the blocking
\* tick (the signed varint64 0, one byte 0x00) as the last field if and only
\* if NetworkID is the shield identifier 513; otherwise the can-break list
\* ends the item.
C4_ShieldTick ==
    (IsItem /\ ~IsEmptyItem) =>
        \A k \in Calls :
            LET o == Out(k)
                r == ReadItemFields(o, TRUE)
                tick == ReadVarint64(o, r.pos)
            IN  /\ r.ok
                /\ IsShield =>
                      /\ tick.ok /\ tick.val = Bits(0, 64)
                      /\ tick.pos = Len(o) + 1
                /\ ~IsShield => r.pos = Len(o) + 1

\* A shield with NBT data and both block lists non-empty was written.
C4_Witness ==
    /\ IsShield /\ Len(marks) >= 1
    /\ Len(x.val.NBTData) = 1
    /\ Len(x.val.CanBePlacedOn) = 1 /\ Len(x.val.CanBreak) = 2
    /\ Out(1)[Len(Out(1))] = 0

\* C6 as stated: the two block lists of a non-empty item are each written as
\* an unsigned varint element count followed by that many strings.
C6_UnsignedCounts ==
    (IsItem /\ ~IsEmptyItem) =>
        \A k \in Calls :
            LET r == ReadItemFields(Out(k), FALSE)
            IN  /\ r.ok
                /\ r.CanBePlacedOn = x.val.CanBePlacedOn
                /\ r.CanBreak = x.val.CanBreak

\* C6 (amended): the two block lists of a non-empty item are written, the
\* can-be-placed-on list first, each as the element count encoded as a
\* signed (zig-zag) varint32 followed by that many length-prefixed strings
\* in the list's order.
C6_SignedCounts ==
    (IsItem /\ ~IsEmptyItem) =>
        \A k \in Calls :
            LET o == Out(k)
                r == ReadItemFields(o, TRUE)
                n1 == ReadVarint32(o, r.listsAt)
            IN  /\ r.ok
                /\ n1.ok /\ n1.val = Bits(Len(x.val.CanBePlacedOn), 32)
                /\ r.CanBePlacedOn = x.val.CanBePlacedOn
                /\ r.CanBreak = x.val.CanBreak

\* An item with one can-be-placed-on block and two can-break blocks was
\* written: the counts on the wire are the bytes 0x02 and 0x04.
C6_Witness ==
    /\ IsItem /\ ~IsEmptyItem /\ Len(marks) >= 1
    /\ x.val.CanBePlacedOn = << <<97>> >>
    /\ x.val.CanBreak = << <<98, 99>>, <<97>> >>
    /\ LET r == ReadItemFields(Out(1), TRUE)
       IN  /\ Out(1)[r.listsAt] = 2
           /\ Out(1)[r.listsAt + 3] = 4

\* C9: the second field of a non-empty item is the signed varint of
\* aux = (MetadataValue << 8) | Count, from which MetadataValue (aux >> 8)
\* and Count (aux & 0xff) are recovered.
C9_AuxInvertible ==
    (IsItem /\ ~IsEmptyItem) =>
        \A k \in Calls :
            LET id == ReadVarint32(Out(k), 1)
                aux == ReadVarint32(Out(k), id.pos)
                md == SignExtend(x.val.MetadataValue, 32)
                cnt == SignExtend(x.val.Count, 32)
            IN  /\ aux.ok
                /\ aux.val = Or(Shl(md, 8), cnt)
                /\ Sar(aux.val, 8) = md
                /\ And(aux.val, Bits(255, 32)) = cnt

\* C8: UUID appends exactly 16 bytes, wire[i] = u[7-i] and
\* wire[8+i] = u[15-i] for i in 0..7 (the halves swapped, then the whole
\* reversed), and the inverse transform gives u back.
C8_UUID ==
    x.type = "UUID" =>
        \A k \in Calls :
            /\ Len(Out(k)) = 16
            /\ \A i \in 0..7 :
                  /\ Out(k)[i + 1] = x.val[(7 - i) + 1]
                  /\ Out(k)[(8 + i) + 1] = x.val[(15 - i) + 1]
            /\ ReadUUID(Out(k)) = x.val

\* The identifier 0, 1, ..., 15 has been written.
C8_Witness ==
    /\ x.type = "UUID" /\ x.val = [i \in 1..16 |-> i - 1]
    /\ Len(marks) >= 1
    /\ Out(1) = <<7, 6, 5, 4, 3, 2, 1, 0, 15, 14, 13, 12, 11, 10, 9, 8>>

IsMap == x.type = "map"

HasUnknownType == IsMap /\ \E key \in DOMAIN x.val : x.val[key].t \notin KnownTypes

\* C5 as stated: two calls of EntityMetadata on the same map write the same
\* bytes.
C5_Deterministic ==
    IsMap => \A j, k \in Calls : Out(j) = Out(k)

\* The bytes of the entries of m for the keys of o, in the order of o.
RECURSIVE EntryBytes(_, _)
EntryBytes(m, o) ==
    IF o = <<>> THEN <<>>
    ELSE WriteValue(Varuint32(<<>>, Bits(Head(o), 32)), m[Head(o)])
             \o EntryBytes(m, Tail(o))

\* The position in the range order of the first value of an unknown type.
FirstUnknown ==
    CHOOSE i \in DOMAIN order :
        /\ x.val[order[i]].t \notin KnownTypes
        /\ \A j \in 1..(i - 1) : x.val[order[j]].t \in KnownTypes

\* C7: EntityMetadata on a map holding a value of a type outside the nine
\* known ones panics when the range reaches that entry: the call does not
\* complete, no further call is made, and the buffer ends with the entry
\* count, the entries visited before it and the key of that entry.
C7_UnknownTypePanics ==
    (HasUnknownType /\ Len(marks) >= 1) =>
        /\ status = "panic"
        /\ Len(marks) = 1
        /\ Out(1) = Varuint32(<<>>, Bits(Cardinality(DOMAIN x.val), 32))
                       \o EntryBytes(x.val, SubSeq(order, 1, FirstUnknown - 1))
                       \o Varuint32(<<>>, Bits(order[FirstUnknown], 32))

\* The map {1: uint16, 2: string, 3: bool} was ranged over from key 2: the
\* string entry was written, then the key 3 of the bool, then the panic.
C7_Witness ==
    /\ HasUnknownType /\ status = "panic"
    /\ order = <<2, 3, 1>>
    /\ buf = <<3, 2, 4, 1, 97, 3>>

====
